---------------------------- MODULE Spec2Model ----------------------------
(*************************************************************************)
(* A model of the two TCP forwarding proxies of this repository:         *)
(*   - the target variant, src/main.go (accept loop, WaitGroup, signal   *)
(*     channel, idle timer, proxy with two joined copy goroutines);      *)
(*   - the simple variant, src/unnamed/part_000 (accept loop, proxy with *)
(*     two fire-and-forget copy goroutines).                             *)
(* Goroutines are interleaved at the granularity of their blocking calls *)
(* (Accept, Dial, Read, Write, WaitGroup.Wait).  Clients, backends, the  *)
(* operating system's signals and the clock are the environment.         *)
(*************************************************************************)
EXTENDS Integers, Sequences, FiniteSets, TLC

\* ------------------------------------------------------------------
\* Bounds of the model
\* ------------------------------------------------------------------
\* number of iterations of the accept loop that get past Accept
MaxConns == 2
\* bytes the peers send in total, over all connections and directions
MaxBytes == 1
\* failed Accept calls
MaxAcceptErrs == 1
\* length of the configured backend list (target variant)
MaxServers == 2
\* length of the backend lists chooseBackend is called on by itself
MaxListLen == 4
\* calls of chooseBackend made on one list
MaxCalls == 3
\* bytes the peers send in total where the byte streams are followed (DataSpec)
MaxStream == 2

Slots == 1..MaxConns
Parties == {"client", "backend"}
Dirs == {"c2b", "b2c"}

\* io.Copy(dst, src): the party read from and the party written to
Src(d) == IF d = "c2b" THEN "client" ELSE "backend"
Dst(d) == IF d = "c2b" THEN "backend" ELSE "client"

\* the k-th byte a peer sends on connection c in direction d
Byte(c, d, k) == <<c, d, k>>

Range(s) == {s[i] : i \in 1..Len(s)}

VARIABLES
    variant,      \* "target" (src/main.go) or "simple" (src/unnamed/part_000)
    procAlive,    \* FALSE once the process has died (panic, log.Fatalf)
    listenerOpen, \* the listening socket is open
    mainPc,       \* main goroutine: "accept", "choose", "add", "spawn", "reset", "returned"
    cur,          \* slot of the loop iteration in progress (0 while in Accept)
    server,       \* the configured backend list
    nslots,       \* loop iterations that got past Accept so far
    acceptErrs,   \* "failed to accept connection" lines logged
    sigChan,      \* number of signals buffered in sig (capacity 1)
    timerActive,  \* timeoutTimer is armed
    timerC,       \* number of values buffered in timeoutTimer.C (capacity 1)
    wgCount,      \* counter of main's WaitGroup
    backendIdx,   \* slot -> index chosen by chooseBackend (-1: none yet)
    backendAddr,  \* slot -> address chosen by chooseBackend ("": none yet)
    relayPc,      \* slot -> relay goroutine: "none", "dial", "wait" (in wg.Wait), "ret" (proxy returned), "done"
    proxyErr,     \* slot -> error returned by proxy: "none", "nil", "err"
    dials,        \* slot -> addresses dialed by the relay, in order
    sock,         \* slot -> party -> the proxy's socket: "none", "nil", "open", "closed"
    peer,         \* slot -> party -> the remote end: "open", "wclosed", "closed"
    copyPc,       \* slot -> direction -> copy goroutine: "none", "running", "done", "failed", "panic"
    sent,         \* slot -> direction -> number of bytes the source peer has sent
    rd,           \* slot -> direction -> bytes read from the source, in order
    buf,          \* slot -> direction -> bytes read and not yet written
    delivered,    \* slot -> direction -> bytes written to the destination, in order
    picks         \* results of the calls of chooseBackend made on their own (ChooseSpec)

mainVars == <<mainPc, cur, nslots, acceptErrs, wgCount>>
envVars == <<sigChan, timerActive, timerC>>
relayVars == <<backendIdx, backendAddr, relayPc, proxyErr, dials, sock, copyPc>>
dataVars == <<peer, sent, rd, buf, delivered>>
vars == <<variant, procAlive, listenerOpen, server, mainVars, envVars, relayVars, dataVars, picks>>

\* ------------------------------------------------------------------
\* Configuration
\* ------------------------------------------------------------------
\* DefaultServers of the target variant, `server` of the simple variant
DefaultServers == <<"localhost:5001", "localhost:5002", "localhost:5003">>

\* addresses a configuration may name
Addresses == DefaultServers \o <<"localhost:5004", "localhost:5005">>

Min(a, b) == IF a < b THEN a ELSE b

\* lists a config.json may give: non-empty, up to max long
ListsUpTo(max) == {SubSeq(Addresses, 1, n) : n \in 1..Min(max, Len(Addresses))}
ServerLists == ListsUpTo(MaxServers)

\* servers[i] with Go's zero-based index; an index out of range panics
Index(servers, i) ==
    IF i \in 0..(Len(servers) - 1) THEN servers[i + 1] ELSE "index out of range"

\* rand.Intn(n): some integer in [0, n)
RandIntnOffByOne(n) == 0..n
RandIntn(n) == 0..(n - 1)

\* chooseBackend of src/main.go: the indexes a call may pick
ChooseBackend(servers) == RandIntn(Len(servers))

\* chooseBackend of src/unnamed/part_000: always server[0]
SimpleChooseBackend(servers) == {0}

\* ------------------------------------------------------------------
\* Initial states
\* ------------------------------------------------------------------
InitCommon ==
    /\ procAlive = TRUE
    /\ listenerOpen = TRUE
    /\ mainPc = "accept"
    /\ cur = 0
    /\ nslots = 0
    /\ acceptErrs = 0
    /\ sigChan = 0
    /\ timerC = 0
    /\ wgCount = 0
    /\ backendIdx = [c \in Slots |-> -1]
    /\ backendAddr = [c \in Slots |-> ""]
    /\ relayPc = [c \in Slots |-> "none"]
    /\ proxyErr = [c \in Slots |-> "none"]
    /\ dials = [c \in Slots |-> <<>>]
    /\ sock = [c \in Slots |-> [p \in Parties |-> "none"]]
    /\ peer = [c \in Slots |-> [p \in Parties |-> "open"]]
    /\ copyPc = [c \in Slots |-> [d \in Dirs |-> "none"]]
    /\ sent = [c \in Slots |-> [d \in Dirs |-> 0]]
    /\ rd = [c \in Slots |-> [d \in Dirs |-> <<>>]]
    /\ buf = [c \in Slots |-> [d \in Dirs |-> <<>>]]
    /\ delivered = [c \in Slots |-> [d \in Dirs |-> <<>>]]
    /\ picks = <<>>

\* src/main.go after net.Listen, signal.Notify and time.NewTimer
Init ==
    /\ variant = "target"
    /\ server \in ServerLists
    /\ timerActive = TRUE
    /\ InitCommon

\* ------------------------------------------------------------------
\* Environment: signals, the clock
\* ------------------------------------------------------------------
\* a signal handler that cancels the relays: every socket a relay holds open
\* is closed when the signal arrives
DeliverSignalCancels ==
    /\ procAlive
    /\ sigChan = 0
    /\ sigChan' = 1
    /\ sock' = [c \in Slots |-> [p \in Parties |->
                   IF sock[c][p] = "open" /\ relayPc[c] \in {"dial", "wait"}
                   THEN "closed" ELSE sock[c][p]]]
    /\ UNCHANGED <<picks, variant, procAlive, listenerOpen, server, mainVars,
                   timerActive, timerC, backendIdx, backendAddr, relayPc, proxyErr,
                   dials, copyPc, dataVars>>

\* SIGINT or SIGTERM arrives: signal.Notify relays it to sig without
\* blocking, and drops it when the channel (capacity 1) is full
DeliverSignal ==
    /\ procAlive
    /\ sigChan = 0
    /\ sigChan' = 1
    /\ UNCHANGED <<picks, variant, procAlive, listenerOpen, server, mainVars,
                   timerActive, timerC, relayVars, dataVars>>

\* the configured timeout elapses with no Reset: the runtime sends on
\* timeoutTimer.C and the timer is no longer armed
TimerExpire ==
    /\ procAlive
    /\ timerActive
    /\ timerActive' = FALSE
    /\ timerC' = 1
    /\ UNCHANGED <<picks, variant, procAlive, listenerOpen, server, mainVars,
                   sigChan, relayVars, dataVars>>

\* ------------------------------------------------------------------
\* src/main.go: main
\* ------------------------------------------------------------------
\* line 64, err == nil: a client connects and Accept returns the connection
AcceptOk ==
    /\ procAlive /\ listenerOpen
    /\ mainPc = "accept"
    /\ nslots < MaxConns
    /\ nslots' = nslots + 1
    /\ cur' = nslots + 1
    /\ sock' = [sock EXCEPT ![nslots + 1]["client"] = "open"]
    /\ mainPc' = "choose"
    /\ UNCHANGED <<picks, variant, procAlive, listenerOpen, server, acceptErrs, wgCount,
                   sigChan, timerActive, timerC, backendIdx, backendAddr, relayPc,
                   proxyErr, dials, copyPc, dataVars>>

\* lines 65-68 with a `continue` missing: the failed Accept falls through
\* with conn == nil
AcceptErrFallThrough ==
    /\ procAlive /\ listenerOpen
    /\ mainPc = "accept"
    /\ acceptErrs < MaxAcceptErrs
    /\ nslots < MaxConns
    /\ acceptErrs' = acceptErrs + 1
    /\ nslots' = nslots + 1
    /\ cur' = nslots + 1
    /\ sock' = [sock EXCEPT ![nslots + 1]["client"] = "nil"]
    /\ mainPc' = "choose"
    /\ UNCHANGED <<picks, variant, procAlive, listenerOpen, server, wgCount, envVars,
                   backendIdx, backendAddr, relayPc, proxyErr, dials, copyPc, dataVars>>

\* lines 64-68, err != nil while the listener is open (aborted handshake,
\* no file descriptors left): log and continue
AcceptErr ==
    /\ procAlive /\ listenerOpen
    /\ mainPc = "accept"
    /\ acceptErrs < MaxAcceptErrs
    /\ acceptErrs' = acceptErrs + 1
    /\ UNCHANGED <<picks, variant, procAlive, listenerOpen, server, mainPc, cur, nslots,
                   wgCount, envVars, relayVars, dataVars>>

\* line 71: backend := chooseBackend(config.Server)
Choose ==
    /\ procAlive
    /\ mainPc = "choose"
    /\ \E i \in ChooseBackend(server) :
          /\ backendIdx' = [backendIdx EXCEPT ![cur] = i]
          /\ backendAddr' = [backendAddr EXCEPT ![cur] = Index(server, i)]
    /\ mainPc' = "add"
    /\ UNCHANGED <<picks, variant, procAlive, listenerOpen, server, cur, nslots, acceptErrs,
                   wgCount, envVars, relayPc, proxyErr, dials, sock, copyPc, dataVars>>

\* line 74: wg.Add(1)
WgAdd ==
    /\ procAlive
    /\ mainPc = "add"
    /\ wgCount' = wgCount + 1
    /\ mainPc' = "spawn"
    /\ UNCHANGED <<picks, variant, procAlive, listenerOpen, server, cur, nslots, acceptErrs,
                   envVars, relayVars, dataVars>>

\* lines 76-82: go func() { defer wg.Done(); err := proxy(backend, conn); ... }()
Spawn ==
    /\ procAlive
    /\ mainPc = "spawn"
    /\ relayPc' = [relayPc EXCEPT ![cur] = "dial"]
    /\ mainPc' = "reset"
    /\ UNCHANGED <<picks, variant, procAlive, listenerOpen, server, cur, nslots, acceptErrs,
                   wgCount, envVars, backendIdx, backendAddr, proxyErr, dials, sock,
                   copyPc, dataVars>>

\* line 85 with a wg.Wait() before it: the listener waits for every relay to
\* finish before it resets the timer and accepts again
TimerResetAfterDrain ==
    /\ procAlive
    /\ mainPc = "reset"
    /\ wgCount = 0
    /\ timerActive' = TRUE
    /\ timerC' \in {0, timerC}
    /\ cur' = 0
    /\ mainPc' = "accept"
    /\ UNCHANGED <<picks, variant, procAlive, listenerOpen, server, nslots, acceptErrs,
                   wgCount, sigChan, relayVars, dataVars>>

\* line 85: timeoutTimer.Reset(...), then back to Accept.  Reset re-arms the
\* timer; a value already sent on timeoutTimer.C stays buffered with the
\* timers of Go before 1.23 and is discarded from Go 1.23 on
TimerReset ==
    /\ procAlive
    /\ mainPc = "reset"
    /\ timerActive' = TRUE
    /\ timerC' \in {0, timerC}
    /\ cur' = 0
    /\ mainPc' = "accept"
    /\ UNCHANGED <<picks, variant, procAlive, listenerOpen, server, nslots, acceptErrs,
                   wgCount, sigChan, relayVars, dataVars>>

\* ------------------------------------------------------------------
\* src/main.go: proxy
\* ------------------------------------------------------------------
\* the two copy goroutines of a relay have both returned (or never started)
CopiesOver(c) == \A d \in Dirs : copyPc[c][d] \in {"done", "failed"}

\* lines 104-107 with `defer c.Close()` missing: the dial fails and proxy
\* returns the error, leaving the client connection open
DialFailNoClose(c) ==
    /\ procAlive
    /\ relayPc[c] = "dial"
    /\ dials' = [dials EXCEPT ![c] = Append(@, backendAddr[c])]
    /\ proxyErr' = [proxyErr EXCEPT ![c] = "err"]
    /\ relayPc' = [relayPc EXCEPT ![c] = "ret"]
    /\ UNCHANGED <<picks, variant, procAlive, listenerOpen, server, mainVars, envVars,
                   backendIdx, backendAddr, sock, copyPc, dataVars>>

\* lines 104-107 with log.Fatalf in place of the returned error
DialFailFatal(c) ==
    /\ procAlive
    /\ relayPc[c] = "dial"
    /\ dials' = [dials EXCEPT ![c] = Append(@, backendAddr[c])]
    /\ proxyErr' = [proxyErr EXCEPT ![c] = "err"]
    /\ relayPc' = [relayPc EXCEPT ![c] = "ret"]
    /\ procAlive' = FALSE
    /\ UNCHANGED <<picks, variant, listenerOpen, server, mainVars, envVars,
                   backendIdx, backendAddr, sock, copyPc, dataVars>>

\* lines 104-107 with one retry: after a first failed dial proxy dials the
\* same backend again instead of returning the error
DialFailRetry(c) ==
    /\ procAlive
    /\ relayPc[c] = "dial"
    /\ dials' = [dials EXCEPT ![c] = Append(@, backendAddr[c])]
    /\ IF Len(dials[c]) = 0
         THEN UNCHANGED <<proxyErr, sock, peer, relayPc>>
         ELSE /\ proxyErr' = [proxyErr EXCEPT ![c] = "err"]
              /\ sock' = [sock EXCEPT ![c]["client"] = "closed"]
              /\ peer' = [peer EXCEPT ![c]["client"] = "closed"]
              /\ relayPc' = [relayPc EXCEPT ![c] = "ret"]
    /\ UNCHANGED <<picks, variant, procAlive, listenerOpen, server, mainVars, envVars,
                   backendIdx, backendAddr, copyPc, sent, rd, buf, delivered>>

\* lines 101-107: net.DialTimeout fails (refused, unreachable, 5 s elapsed);
\* proxy returns the error and the deferred c.Close() runs
DialFail(c) ==
    /\ procAlive
    /\ relayPc[c] = "dial"
    /\ dials' = [dials EXCEPT ![c] = Append(@, backendAddr[c])]
    /\ proxyErr' = [proxyErr EXCEPT ![c] = "err"]
    /\ sock' = [sock EXCEPT ![c]["client"] = "closed"]
    /\ peer' = [peer EXCEPT ![c]["client"] = "closed"]
    /\ relayPc' = [relayPc EXCEPT ![c] = "ret"]
    /\ UNCHANGED <<picks, variant, procAlive, listenerOpen, server, mainVars, envVars,
                   backendIdx, backendAddr, copyPc, sent, rd, buf, delivered>>

\* lines 104-130 with bc.Close() at line 108 not deferred: the backend
\* connection is closed as soon as it is dialed, under the copy goroutines
DialOkCloseNow(c) ==
    /\ procAlive
    /\ relayPc[c] = "dial"
    /\ dials' = [dials EXCEPT ![c] = Append(@, backendAddr[c])]
    /\ sock' = [sock EXCEPT ![c]["backend"] = "closed"]
    /\ peer' = [peer EXCEPT ![c]["backend"] = "closed"]
    /\ copyPc' = [copyPc EXCEPT ![c] = [d \in Dirs |-> "running"]]
    /\ relayPc' = [relayPc EXCEPT ![c] = "wait"]
    /\ UNCHANGED <<picks, variant, procAlive, listenerOpen, server, mainVars, envVars,
                   backendIdx, backendAddr, proxyErr, sent, rd, buf, delivered>>

\* lines 104-130: net.DialTimeout succeeds; wg.Add(2) and the two copy
\* goroutines are started; proxy goes on to wg.Wait()
DialOk(c) ==
    /\ procAlive
    /\ relayPc[c] = "dial"
    /\ dials' = [dials EXCEPT ![c] = Append(@, backendAddr[c])]
    /\ sock' = [sock EXCEPT ![c]["backend"] = "open"]
    /\ copyPc' = [copyPc EXCEPT ![c] = [d \in Dirs |-> "running"]]
    /\ relayPc' = [relayPc EXCEPT ![c] = "wait"]
    /\ UNCHANGED <<picks, variant, procAlive, listenerOpen, server, mainVars, envVars,
                   backendIdx, backendAddr, proxyErr, dataVars>>

\* lines 133-138 with `defer bc.Close()` (line 108) missing: proxy returns
\* nil and only c.Close() runs
ProxyFinishNoBackendClose(c) ==
    /\ procAlive
    /\ relayPc[c] = "wait"
    /\ CopiesOver(c)
    /\ sock' = [sock EXCEPT ![c]["client"] = "closed"]
    /\ peer' = [peer EXCEPT ![c]["client"] = "closed"]
    /\ proxyErr' = [proxyErr EXCEPT ![c] = "nil"]
    /\ relayPc' = [relayPc EXCEPT ![c] = "ret"]
    /\ UNCHANGED <<picks, variant, procAlive, listenerOpen, server, mainVars, envVars,
                   backendIdx, backendAddr, dials, copyPc, sent, rd, buf, delivered>>

\* lines 111-133 with wg.Add(1) in place of wg.Add(2): wg.Wait() returns as
\* soon as one copy goroutine has called wg.Done()
ProxyFinishEarly(c) ==
    /\ procAlive
    /\ relayPc[c] = "wait"
    /\ \E d \in Dirs : copyPc[c][d] \in {"done", "failed"}
    /\ sock' = [sock EXCEPT ![c] = [p \in Parties |-> "closed"]]
    /\ peer' = [peer EXCEPT ![c] = [p \in Parties |-> "closed"]]
    /\ proxyErr' = [proxyErr EXCEPT ![c] = "nil"]
    /\ relayPc' = [relayPc EXCEPT ![c] = "ret"]
    /\ UNCHANGED <<picks, variant, procAlive, listenerOpen, server, mainVars, envVars,
                   backendIdx, backendAddr, dials, copyPc, sent, rd, buf, delivered>>

\* lines 133-138 and the defers of lines 101 and 108: wg.Wait() returns once
\* both copy goroutines have called wg.Done(); proxy prints, returns nil, and
\* bc.Close() then c.Close() run
ProxyFinish(c) ==
    /\ procAlive
    /\ relayPc[c] = "wait"
    /\ CopiesOver(c)
    /\ sock' = [sock EXCEPT ![c] = [p \in Parties |-> "closed"]]
    /\ peer' = [peer EXCEPT ![c] = [p \in Parties |-> "closed"]]
    /\ proxyErr' = [proxyErr EXCEPT ![c] = "nil"]
    /\ relayPc' = [relayPc EXCEPT ![c] = "ret"]
    /\ UNCHANGED <<picks, variant, procAlive, listenerOpen, server, mainVars, envVars,
                   backendIdx, backendAddr, dials, copyPc, sent, rd, buf, delivered>>

\* lines 76-82 with wg.Done() called after the error check instead of being
\* deferred, and the error branch returning first: a relay whose proxy
\* failed never deregisters
RelayDoneSkipOnErr(c) ==
    /\ procAlive
    /\ relayPc[c] = "ret"
    /\ wgCount' = IF proxyErr[c] = "err" THEN wgCount ELSE wgCount - 1
    /\ relayPc' = [relayPc EXCEPT ![c] = "done"]
    /\ UNCHANGED <<picks, variant, procAlive, listenerOpen, server, mainPc, cur, nslots,
                   acceptErrs, envVars, backendIdx, backendAddr, proxyErr, dials,
                   sock, copyPc, dataVars>>

\* lines 77-81: proxy has returned to the relay goroutine, which logs the
\* error if any; the deferred wg.Done() runs
RelayDone(c) ==
    /\ procAlive
    /\ relayPc[c] = "ret"
    /\ wgCount' = wgCount - 1
    /\ relayPc' = [relayPc EXCEPT ![c] = "done"]
    /\ UNCHANGED <<picks, variant, procAlive, listenerOpen, server, mainPc, cur, nslots,
                   acceptErrs, envVars, backendIdx, backendAddr, proxyErr, dials,
                   sock, copyPc, dataVars>>

\* ------------------------------------------------------------------
\* io.Copy(dst, src), lines 117 and 126 (and part_000 lines 55 and 58)
\* ------------------------------------------------------------------
\* bytes the source peer has sent and the copy has not read yet
Unread(c, d) == sent[c][d] - Len(rd[c][d])

\* src.Read returns n > 0 bytes
CopyRead(c, d) ==
    /\ procAlive
    /\ copyPc[c][d] = "running"
    /\ buf[c][d] = <<>>
    /\ sock[c][Src(d)] = "open"
    /\ \E n \in 1..Unread(c, d) :
          LET chunk == [k \in 1..n |-> Byte(c, d, Len(rd[c][d]) + k)]
          IN /\ rd' = [rd EXCEPT ![c][d] = @ \o chunk]
             /\ buf' = [buf EXCEPT ![c][d] = chunk]
    /\ UNCHANGED <<picks, variant, procAlive, listenerOpen, server, mainVars, envVars,
                   relayVars, peer, sent, delivered>>

\* dst.Write with a chunk written twice (a short write retried from the
\* start of the buffer)
CopyWriteTwice(c, d) ==
    /\ procAlive
    /\ copyPc[c][d] = "running"
    /\ buf[c][d] # <<>>
    /\ sock[c][Dst(d)] = "open"
    /\ peer[c][Dst(d)] # "closed"
    /\ delivered' = [delivered EXCEPT ![c][d] = @ \o buf[c][d] \o buf[c][d]]
    /\ buf' = [buf EXCEPT ![c][d] = <<>>]
    /\ UNCHANGED <<picks, variant, procAlive, listenerOpen, server, mainVars, envVars,
                   relayVars, peer, sent, rd>>

\* dst.Write accepts the bytes just read
CopyWrite(c, d) ==
    /\ procAlive
    /\ copyPc[c][d] = "running"
    /\ buf[c][d] # <<>>
    /\ sock[c][Dst(d)] = "open"
    /\ peer[c][Dst(d)] # "closed"
    /\ delivered' = [delivered EXCEPT ![c][d] = @ \o buf[c][d]]
    /\ buf' = [buf EXCEPT ![c][d] = <<>>]
    /\ UNCHANGED <<picks, variant, procAlive, listenerOpen, server, mainVars, envVars,
                   relayVars, peer, sent, rd>>

\* src.Read returns io.EOF (the source peer has shut down its sending side
\* and everything it sent is read): io.Copy returns nil
CopyEOF(c, d) ==
    /\ procAlive
    /\ copyPc[c][d] = "running"
    /\ buf[c][d] = <<>>
    /\ sock[c][Src(d)] = "open"
    /\ peer[c][Src(d)] \in {"wclosed", "closed"}
    /\ Unread(c, d) = 0
    /\ copyPc' = [copyPc EXCEPT ![c][d] = "done"]
    /\ UNCHANGED <<picks, variant, procAlive, listenerOpen, server, mainVars, envVars,
                   backendIdx, backendAddr, relayPc, proxyErr, dials, sock, dataVars>>

\* src.Read fails (the proxy's socket is closed, or the peer has reset the
\* connection) or dst.Write fails (the proxy's socket is closed, or the
\* peer is gone): io.Copy returns the error, which is logged
CopyFail(c, d) ==
    /\ procAlive
    /\ copyPc[c][d] = "running"
    /\ IF buf[c][d] = <<>>
         THEN sock[c][Src(d)] = "closed" \/ peer[c][Src(d)] = "closed"
         ELSE sock[c][Dst(d)] = "closed" \/ peer[c][Dst(d)] = "closed"
    /\ copyPc' = [copyPc EXCEPT ![c][d] = "failed"]
    /\ buf' = [buf EXCEPT ![c][d] = <<>>]
    /\ UNCHANGED <<picks, variant, procAlive, listenerOpen, server, mainVars, envVars,
                   backendIdx, backendAddr, relayPc, proxyErr, dials, sock,
                   peer, sent, rd, delivered>>

\* ------------------------------------------------------------------
\* Environment: the remote ends of a relay's two connections.  A socket the
\* proxy closes takes the connection down: from then on its remote end
\* counts as closed.  The proxy looks at what a remote end did only in its
\* copy goroutines, so a remote end's shutdown or close is taken to happen
\* while a copy that can see it runs.
\* ------------------------------------------------------------------
\* the proxy holds an open socket to party p of slot c
Connected(c, p) == sock[c][p] = "open"

\* a copy goroutine of slot c that reads from, or reads from or writes to, party p runs
ReaderRuns(c, p) == \E d \in Dirs : Src(d) = p /\ copyPc[c][d] = "running"
UserRuns(c, p) == \E d \in Dirs : copyPc[c][d] = "running"

\* bytes sent so far by the peers of slots c..MaxConns
RECURSIVE SentFrom(_)
SentFrom(c) ==
    IF c > MaxConns THEN 0
    ELSE sent[c]["c2b"] + sent[c]["b2c"] + SentFrom(c + 1)

\* the source peer of direction d sends its next byte
PeerSend(c, d) ==
    /\ procAlive
    /\ Connected(c, Src(d))
    /\ peer[c][Src(d)] = "open"
    /\ SentFrom(1) < MaxBytes
    /\ sent' = [sent EXCEPT ![c][d] = @ + 1]
    /\ UNCHANGED <<picks, variant, procAlive, listenerOpen, server, mainVars, envVars,
                   relayVars, peer, rd, buf, delivered>>

\* the same, with the budget of DataSpec
DataPeerSend(c, d) ==
    /\ procAlive
    /\ Connected(c, Src(d))
    /\ peer[c][Src(d)] = "open"
    /\ SentFrom(1) < MaxStream
    /\ sent' = [sent EXCEPT ![c][d] = @ + 1]
    /\ UNCHANGED <<picks, variant, procAlive, listenerOpen, server, mainVars, envVars,
                   relayVars, peer, rd, buf, delivered>>

\* party p shuts down its sending side (half-close: FIN)
PeerCloseWrite(c, p) ==
    /\ procAlive
    /\ Connected(c, p)
    /\ ReaderRuns(c, p)
    /\ peer[c][p] = "open"
    /\ peer' = [peer EXCEPT ![c][p] = "wclosed"]
    /\ UNCHANGED <<picks, variant, procAlive, listenerOpen, server, mainVars, envVars,
                   relayVars, sent, rd, buf, delivered>>

\* party p closes or resets its connection
PeerClose(c, p) ==
    /\ procAlive
    /\ Connected(c, p)
    /\ UserRuns(c, p)
    /\ peer[c][p] \in {"open", "wclosed"}
    /\ peer' = [peer EXCEPT ![c][p] = "closed"]
    /\ UNCHANGED <<picks, variant, procAlive, listenerOpen, server, mainVars, envVars,
                   relayVars, sent, rd, buf, delivered>>

\* ------------------------------------------------------------------
\* The target variant
\* ------------------------------------------------------------------
MainStep == AcceptOk \/ Choose \/ WgAdd \/ Spawn \/ TimerReset

RelayStep(c) == DialOk(c) \/ DialFail(c) \/ ProxyFinish(c) \/ RelayDone(c)

CopyStep(c, d) == CopyRead(c, d) \/ CopyWrite(c, d) \/ CopyEOF(c, d) \/ CopyFail(c, d)

PeerStep(c) ==
    \/ \E d \in Dirs : PeerSend(c, d)
    \/ \E p \in Parties : PeerCloseWrite(c, p) \/ PeerClose(c, p)

Next ==
    \/ DeliverSignal
    \/ TimerExpire
    \/ AcceptErr
    \/ AcceptOk
    \/ Choose
    \/ WgAdd
    \/ Spawn
    \/ TimerReset
    \/ \E c \in Slots : DialOk(c)
    \/ \E c \in Slots : DialFail(c)
    \/ \E c \in Slots : ProxyFinish(c)
    \/ \E c \in Slots : RelayDone(c)
    \/ \E c \in Slots, d \in Dirs : CopyRead(c, d)
    \/ \E c \in Slots, d \in Dirs : CopyWrite(c, d)
    \/ \E c \in Slots, d \in Dirs : CopyEOF(c, d)
    \/ \E c \in Slots, d \in Dirs : CopyFail(c, d)
    \/ \E c \in Slots, d \in Dirs : PeerSend(c, d)
    \/ \E c \in Slots, p \in Parties : PeerCloseWrite(c, p)
    \/ \E c \in Slots, p \in Parties : PeerClose(c, p)

Spec == Init /\ [][Next]_vars

\* ------------------------------------------------------------------
\* The simple variant, src/unnamed/part_000
\* ------------------------------------------------------------------
\* after net.Listen; there is no signal channel, timer or WaitGroup
SimpleInit ==
    /\ variant = "simple"
    /\ server = DefaultServers
    /\ timerActive = FALSE
    /\ InitCommon

\* line 32, err == nil
SimpleAcceptOk ==
    /\ procAlive /\ listenerOpen
    /\ mainPc = "accept"
    /\ nslots < MaxConns
    /\ nslots' = nslots + 1
    /\ cur' = nslots + 1
    /\ sock' = [sock EXCEPT ![nslots + 1]["client"] = "open"]
    /\ mainPc' = "choose"
    /\ UNCHANGED <<picks, variant, procAlive, listenerOpen, server, acceptErrs, wgCount,
                   envVars, backendIdx, backendAddr, relayPc, proxyErr, dials, copyPc,
                   dataVars>>

\* lines 32-35, err != nil: the error is logged and the iteration goes on
\* with conn == nil (there is no continue)
SimpleAcceptErr ==
    /\ procAlive /\ listenerOpen
    /\ mainPc = "accept"
    /\ acceptErrs < MaxAcceptErrs
    /\ nslots < MaxConns
    /\ acceptErrs' = acceptErrs + 1
    /\ nslots' = nslots + 1
    /\ cur' = nslots + 1
    /\ sock' = [sock EXCEPT ![nslots + 1]["client"] = "nil"]
    /\ mainPc' = "choose"
    /\ UNCHANGED <<picks, variant, procAlive, listenerOpen, server, wgCount, envVars,
                   backendIdx, backendAddr, relayPc, proxyErr, dials, copyPc, dataVars>>

\* line 37: backend := chooseBackend()
SimpleChoose ==
    /\ procAlive
    /\ mainPc = "choose"
    /\ \E i \in SimpleChooseBackend(server) :
          /\ backendIdx' = [backendIdx EXCEPT ![cur] = i]
          /\ backendAddr' = [backendAddr EXCEPT ![cur] = Index(server, i)]
    /\ mainPc' = "spawn"
    /\ UNCHANGED <<picks, variant, procAlive, listenerOpen, server, cur, nslots, acceptErrs,
                   wgCount, envVars, relayPc, proxyErr, dials, sock, copyPc, dataVars>>

\* lines 39-45: go func() { err := proxy(backend, conn); ... }(), then the
\* next Accept
SimpleSpawn ==
    /\ procAlive
    /\ mainPc = "spawn"
    /\ relayPc' = [relayPc EXCEPT ![cur] = "dial"]
    /\ cur' = 0
    /\ mainPc' = "accept"
    /\ UNCHANGED <<picks, variant, procAlive, listenerOpen, server, nslots, acceptErrs,
                   wgCount, envVars, backendIdx, backendAddr, proxyErr, dials, sock,
                   copyPc, dataVars>>

\* lines 49-52 and 41-43: net.Dial fails; proxy returns the error, which the
\* relay goroutine logs; the client connection is not closed
SimpleDialFail(c) ==
    /\ procAlive
    /\ relayPc[c] = "dial"
    /\ dials' = [dials EXCEPT ![c] = Append(@, backendAddr[c])]
    /\ proxyErr' = [proxyErr EXCEPT ![c] = "err"]
    /\ relayPc' = [relayPc EXCEPT ![c] = "done"]
    /\ UNCHANGED <<picks, variant, procAlive, listenerOpen, server, mainVars, envVars,
                   backendIdx, backendAddr, sock, copyPc, dataVars>>

\* lines 49-60: net.Dial succeeds; the two copy goroutines are started and
\* proxy returns nil at once
SimpleDialOk(c) ==
    /\ procAlive
    /\ relayPc[c] = "dial"
    /\ dials' = [dials EXCEPT ![c] = Append(@, backendAddr[c])]
    /\ sock' = [sock EXCEPT ![c]["backend"] = "open"]
    /\ copyPc' = [copyPc EXCEPT ![c] = [d \in Dirs |-> "running"]]
    /\ proxyErr' = [proxyErr EXCEPT ![c] = "nil"]
    /\ relayPc' = [relayPc EXCEPT ![c] = "done"]
    /\ UNCHANGED <<picks, variant, procAlive, listenerOpen, server, mainVars, envVars,
                   backendIdx, backendAddr, dataVars>>

\* lines 55 and 58 with c == nil: io.Copy(bc, c) calls Read, and io.Copy(c, bc)
\* calls Write, on the nil net.Conn; the nil dereference panics in a
\* goroutine that recovers nothing, which ends the process
SimpleCopyPanic(c, d) ==
    /\ procAlive
    /\ copyPc[c][d] = "running"
    /\ sock[c]["client"] = "nil"
    /\ d = "b2c" => buf[c][d] # <<>>
    /\ copyPc' = [copyPc EXCEPT ![c][d] = "panic"]
    /\ procAlive' = FALSE
    /\ UNCHANGED <<picks, variant, listenerOpen, server, mainVars, envVars,
                   backendIdx, backendAddr, relayPc, proxyErr, dials, sock, dataVars>>

SimpleNext ==
    \/ SimpleAcceptOk
    \/ SimpleAcceptErr
    \/ SimpleChoose
    \/ SimpleSpawn
    \/ \E c \in Slots : SimpleDialOk(c)
    \/ \E c \in Slots : SimpleDialFail(c)
    \/ \E c \in Slots, d \in Dirs : SimpleCopyPanic(c, d)
    \/ \E c \in Slots, d \in Dirs : CopyRead(c, d)
    \/ \E c \in Slots, d \in Dirs : CopyWrite(c, d)
    \/ \E c \in Slots, d \in Dirs : CopyEOF(c, d)
    \/ \E c \in Slots, d \in Dirs : CopyFail(c, d)
    \/ \E c \in Slots, d \in Dirs : PeerSend(c, d)
    \/ \E c \in Slots, p \in Parties : PeerCloseWrite(c, p)
    \/ \E c \in Slots, p \in Parties : PeerClose(c, p)

SimpleSpec == SimpleInit /\ [][SimpleNext]_vars

\* ------------------------------------------------------------------
\* chooseBackend on its own: both implementations, called repeatedly on
\* one backend list
\* ------------------------------------------------------------------
ChooseInit ==
    /\ \/ variant = "target" /\ server \in ListsUpTo(MaxListLen)
       \/ variant = "simple" /\ server = DefaultServers
    /\ timerActive = FALSE
    /\ InitCommon

\* a call's result: the index picked and the address returned
Pick(servers, i) == [idx |-> i, addr |-> Index(servers, i)]

\* src/main.go lines 142-145
CallChooseBackend ==
    /\ variant = "target"
    /\ Len(picks) < MaxCalls
    /\ \E i \in ChooseBackend(server) : picks' = Append(picks, Pick(server, i))
    /\ UNCHANGED <<variant, procAlive, listenerOpen, server, mainVars, envVars,
                   relayVars, dataVars>>

\* src/unnamed/part_000 lines 64-67
CallSimpleChooseBackend ==
    /\ variant = "simple"
    /\ Len(picks) < MaxCalls
    /\ \E i \in SimpleChooseBackend(server) : picks' = Append(picks, Pick(server, i))
    /\ UNCHANGED <<variant, procAlive, listenerOpen, server, mainVars, envVars,
                   relayVars, dataVars>>

ChooseNext == CallChooseBackend \/ CallSimpleChooseBackend

ChooseSpec == ChooseInit /\ [][ChooseNext]_vars

\* ------------------------------------------------------------------
\* Scheduling of the target variant: the Go scheduler runs every goroutine
\* that is not blocked, a dial ends within its 5 s timeout one way or the
\* other, and the clock runs.  Nothing is assumed of clients, backends or
\* signals: Accept, Read and Write block for as long as the remote end
\* chooses.
\* ------------------------------------------------------------------
Fairness ==
    /\ WF_vars(Choose \/ WgAdd \/ Spawn \/ TimerReset)
    /\ WF_vars(TimerExpire)
    /\ \A c \in Slots : WF_vars(DialOk(c) \/ DialFail(c))
    /\ \A c \in Slots : WF_vars(ProxyFinish(c) \/ RelayDone(c))
    /\ \A c \in Slots : \A d \in Dirs : WF_vars(CopyStep(c, d))

FairSpec == Init /\ [][Next]_vars /\ Fairness

\* ------------------------------------------------------------------
\* Shutdown state of the target variant (spec section 4.4): Stopped once
\* main has returned, Draining while the listener is closed and main has
\* not returned, Running otherwise
\* ------------------------------------------------------------------
ShutdownState ==
    IF mainPc = "returned" THEN "Stopped"
    ELSE IF listenerOpen THEN "Running" ELSE "Draining"

\* relays spawned and not yet deregistered
InFlight == {c \in Slots : relayPc[c] \in {"dial", "wait", "ret"}}

\* C1: once either copy task of a relay has terminated, the proxy
\* eventually closes both the client and the backend connection
C1_FirstCopyEndClosesBoth ==
    \A c \in Slots :
        (\E d \in Dirs : copyPc[c][d] \in {"done", "failed"})
            ~> (sock[c]["client"] = "closed" /\ sock[c]["backend"] = "closed")

\* C3: a signal delivered while Running eventually takes the proxy out of
\* Running: the listener is closed
C3_SignalLeadsToDraining ==
    (sigChan = 1 /\ ShutdownState = "Running") ~> (ShutdownState # "Running")

\* C4: main returns only with no relay in flight, and once a termination
\* request is in and every relay has finished, main eventually returns
C4_StopsWhenDrained ==
    /\ [](ShutdownState = "Stopped" => InFlight = {})
    /\ (sigChan = 1 /\ InFlight = {} /\ \E c \in Slots : relayPc[c] = "done")
           ~> (ShutdownState = "Stopped")

\* C5: once the idle timer has expired with no accept since (it is re-armed
\* by every accept), the proxy eventually leaves Running
C5_IdleTimeoutLeadsToDraining ==
    (~timerActive /\ mainPc = "accept") ~> (ShutdownState # "Running")

\* C2: a relay whose dial failed has its client connection closed, never
\* had a backend connection or a copy task, and forwarded no byte in either
\* direction
C2_DialFailureClosesClient ==
    \A c \in Slots :
        proxyErr[c] = "err" =>
            /\ Len(dials[c]) = 1
            /\ sock[c]["client"] = "closed"
            /\ sock[c]["backend"] = "none"
            /\ \A d \in Dirs : copyPc[c][d] = "none" /\ rd[c][d] = <<>> /\ delivered[c][d] = <<>>

\* a dial failed on a connection whose client had already sent a byte
C2_Witness ==
    \E c \in Slots : proxyErr[c] = "err" /\ sent[c]["c2b"] > 0

\* a step in which connection c's relay meets an error: its dial fails, or
\* one of its copies ends on a read or write error
ErrorStep(c) ==
    \/ proxyErr[c] # "err" /\ proxyErr'[c] = "err"
    \/ \E d \in Dirs : copyPc[c][d] # "failed" /\ copyPc'[c][d] = "failed"

\* some relay has met an error
Errored(c) == proxyErr[c] = "err" \/ \E d \in Dirs : copyPc[c][d] = "failed"

\* C6: a step in which one relay meets an error leaves the main goroutine
\* where it is and every other relay's sockets, copy tasks and progress as
\* they are; with an error met, the process is alive and the listener open
C6_ErrorsStayLocal ==
    [][/\ (\E c \in Slots : Errored(c))' => (procAlive' /\ listenerOpen')
       /\ \A c \in Slots :
            ErrorStep(c) =>
                /\ mainPc' = mainPc /\ cur' = cur /\ wgCount' = wgCount
                /\ \A o \in Slots \ {c} :
                      /\ sock'[o] = sock[o]
                      /\ copyPc'[o] = copyPc[o]
                      /\ relayPc'[o] = relayPc[o]
                      /\ buf'[o] = buf[o]
                      /\ delivered'[o] = delivered[o]]_vars

\* one relay has met an error while another is copying with both sockets
\* open, and the main goroutine is at Accept
C6_Witness ==
    \E c, o \in Slots :
        /\ c # o
        /\ Errored(c)
        /\ relayPc[o] = "wait"
        /\ \A p \in Parties : sock[o][p] = "open"
        /\ \A d \in Dirs : copyPc[o][d] = "running"
        /\ mainPc = "accept" /\ listenerOpen /\ procAlive

\* C7: a step in which Accept fails with the listener open takes the main
\* goroutine straight back to Accept: no slot is taken, no backend chosen,
\* the WaitGroup is not incremented and no relay is spawned
C7_AcceptErrorContinues ==
    [][acceptErrs' # acceptErrs =>
          /\ mainPc' = "accept" /\ cur' = 0
          /\ nslots' = nslots
          /\ backendIdx' = backendIdx /\ backendAddr' = backendAddr
          /\ wgCount' = wgCount
          /\ relayPc' = relayPc
          /\ sock' = sock
          /\ listenerOpen' /\ procAlive']_vars

\* an Accept has failed and a later Accept has succeeded
C7_Witness ==
    /\ acceptErrs > 0
    /\ listenerOpen
    /\ \E c \in Slots : relayPc[c] # "none"

\* C8: in the simple variant no relay is started with a nil client
\* connection, and the process is alive
C8_RelayGetsAcceptedConn ==
    /\ procAlive
    /\ \A c \in Slots : relayPc[c] # "none" => sock[c]["client"] # "nil"

\* C9: every call of chooseBackend, of either variant, on a non-empty list
\* picks an index in 0..len-1 and returns an address of the list
C9_ChoiceIsConfigured ==
    \A k \in 1..Len(picks) :
        /\ picks[k].idx \in 0..(Len(server) - 1)
        /\ picks[k].addr \in Range(server)

\* chooseBackend has been called on a list of several backends and has
\* returned another than the first
C9_Witness ==
    /\ Len(server) >= 2
    /\ \E k \in 1..Len(picks) : picks[k].idx > 0

\* the addresses a call of the variant's chooseBackend may return
Possible(servers) ==
    {Index(servers, i) :
        i \in IF variant = "target" THEN ChooseBackend(servers)
              ELSE SimpleChooseBackend(servers)}

\* C10: on a list of two or more backends, every configured backend is a
\* possible result of a call of chooseBackend, in either variant
C10_EveryBackendPossible ==
    Len(server) >= 2 => Range(server) \subseteq Possible(server)

\* ------------------------------------------------------------------
\* The target variant with longer byte streams and a quiet environment: one
\* configured backend, no signal, no timer expiry, no failing Accept
\* ------------------------------------------------------------------
DataInit == Init /\ Len(server) = 1

DataNext ==
    \/ AcceptOk
    \/ Choose
    \/ WgAdd
    \/ Spawn
    \/ TimerReset
    \/ \E c \in Slots : DialOk(c)
    \/ \E c \in Slots : DialFail(c)
    \/ \E c \in Slots : ProxyFinish(c)
    \/ \E c \in Slots : RelayDone(c)
    \/ \E c \in Slots, d \in Dirs : CopyRead(c, d)
    \/ \E c \in Slots, d \in Dirs : CopyWrite(c, d)
    \/ \E c \in Slots, d \in Dirs : CopyEOF(c, d)
    \/ \E c \in Slots, d \in Dirs : CopyFail(c, d)
    \/ \E c \in Slots, d \in Dirs : DataPeerSend(c, d)
    \/ \E c \in Slots, p \in Parties : PeerCloseWrite(c, p)
    \/ \E c \in Slots, p \in Parties : PeerClose(c, p)

DataSpec == DataInit /\ [][DataNext]_vars

\* the first n bytes the source peer of direction d sends on connection c
Stream(c, d, n) == [k \in 1..n |-> Byte(c, d, k)]

IsPrefix(s, t) == Len(s) <= Len(t) /\ SubSeq(t, 1, Len(s)) = s

\* C11: per connection and direction, the bytes read are the first bytes
\* the source sent, in order; the bytes delivered are a prefix of the bytes
\* read; and while the copy runs, the bytes read are exactly those
\* delivered followed by those in the copy's buffer
C11_DeliveredIsPrefixOfRead ==
    \A c \in Slots : \A d \in Dirs :
        /\ Len(rd[c][d]) <= sent[c][d]
        /\ rd[c][d] = Stream(c, d, Len(rd[c][d]))
        /\ IsPrefix(delivered[c][d], rd[c][d])
        /\ copyPc[c][d] = "running" => rd[c][d] = delivered[c][d] \o buf[c][d]

\* two bytes have been delivered in one direction of one connection
C11_Witness ==
    \E c \in Slots : \E d \in Dirs : Len(delivered[c][d]) >= 2


\* proxy has returned for this connection (its defers have run)
Returned(c) == relayPc[c] \in {"ret", "done"}

\* C12: once proxy has returned, and so when the relay goroutine calls
\* wg.Done(), the client socket is closed and the backend socket is closed
\* if the dial opened it; this holds after a failed dial and after a relay
\* whose copies ended in end-of-stream or in an error
C12_SocketsClosedAtDeregistration ==
    \A c \in Slots :
        Returned(c) =>
            /\ sock[c]["client"] = "closed"
            /\ sock[c]["backend"] \in {"none", "closed"}
            /\ proxyErr[c] = "nil" => sock[c]["backend"] = "closed"

\* one relay is deregistered after a failed dial and another after a relay
\* in which one copy saw end-of-stream and the other an error
C12_Witness ==
    \E c1, c2 \in Slots :
        /\ relayPc[c1] = "done" /\ proxyErr[c1] = "err"
        /\ relayPc[c2] = "done" /\ proxyErr[c2] = "nil"
        /\ \E d \in Dirs : copyPc[c2][d] = "done"
        /\ \E d \in Dirs : copyPc[c2][d] = "failed"

\* C13: proxy has not returned while one of its copy goroutines is still
\* running
C13_ReturnsAfterBothCopies ==
    \A c \in Slots : \A d \in Dirs : Returned(c) => copyPc[c][d] # "running"

\* proxy has returned nil after both copies ended, one of them well before
\* the other (it delivered nothing, the other delivered a byte)
C13_Witness ==
    \E c \in Slots :
        /\ Returned(c) /\ proxyErr[c] = "nil"
        /\ CopiesOver(c)
        /\ \E d \in Dirs : Len(delivered[c][d]) > 0

\* relays the listener has registered with wg.Add(1) (line 74) and not yet
\* started with the go statement (line 76)
Registered == IF mainPc = "spawn" THEN 1 ELSE 0

\* C14, as stated: in every reachable state the WaitGroup counter equals the
\* number of relay goroutines spawned and not yet finished
C14_CounterEqualsInFlight == wgCount = Cardinality(InFlight)

\* C14, amended: the counter is never negative and equals the number of
\* relay goroutines spawned and not yet finished, plus one while the
\* listener is between wg.Add(1) and the go statement; so each relay is
\* counted from before it starts until its proxy has returned, once, after
\* a success and after an error alike
C14_CounterTracksRelays ==
    /\ wgCount >= 0
    /\ wgCount = Cardinality(InFlight) + Registered

\* a relay whose dial failed has deregistered and the next one is registered
\* and not started yet: the counter is 1 with no relay in flight
C14_Witness ==
    /\ mainPc = "spawn"
    /\ wgCount = 1
    /\ InFlight = {}
    /\ \E c \in Slots : relayPc[c] = "done" /\ proxyErr[c] = "err"

\* C15: wherever the listener is between two Accept calls, its next
\* statement can run at once and takes it one statement closer to Accept,
\* whatever the relays are doing: choose, wg.Add, go and Reset never wait
\* for a relay
C15_AcceptLoopNeverWaits ==
    /\ mainPc = "choose" => ENABLED (Choose /\ mainPc' = "add")
    /\ mainPc = "add" => ENABLED (WgAdd /\ mainPc' = "spawn")
    /\ mainPc = "spawn" => ENABLED (Spawn /\ mainPc' = "reset")
    /\ mainPc = "reset" => ENABLED (TimerReset /\ mainPc' = "accept")

\* the listener is about to reset the timer and accept again while one
\* relay is copying and another is dialing
C15_Witness ==
    /\ mainPc = "reset"
    /\ \E c \in Slots : relayPc[c] = "dial"
    /\ \E c \in Slots : relayPc[c] = "wait" /\ \E d \in Dirs : copyPc[c][d] = "running"

\* a step of the shutdown path: a signal is put in sig, the idle timer
\* expires, the listener is closed, or main gets past its wg.Wait()
ShutdownStep ==
    \/ sigChan' # sigChan
    \/ timerActive /\ ~timerActive'
    \/ listenerOpen /\ ~listenerOpen'
    \/ mainPc # "returned" /\ mainPc' = "returned"

\* C18: a step of the shutdown path changes nothing of any relay (sockets,
\* copy goroutines, bytes in flight), and a socket of a relay becomes closed
\* only in the step in which that relay's own proxy call returns
C18_ShutdownSparesRelays ==
    [][ /\ ShutdownStep => UNCHANGED <<relayVars, dataVars>>
        /\ \A c \in Slots : \A p \in Parties :
              (sock[c][p] # "closed" /\ sock'[c][p] = "closed")
                  => (relayPc[c] \in {"dial", "wait"} /\ relayPc'[c] = "ret")
        /\ \A c \in Slots : \A d \in Dirs :
              (copyPc[c][d] = "running" /\ copyPc'[c][d] # "running")
                  => (~ShutdownStep /\ relayPc'[c] = relayPc[c])
      ]_vars

\* a signal is buffered in sig and the idle timer has expired while a relay
\* has both sockets open and both copies running, and another relay's
\* sockets were closed by its proxy
C18_Witness ==
    /\ sigChan = 1
    /\ ~timerActive /\ timerC = 1
    /\ \E c \in Slots :
          /\ relayPc[c] = "wait"
          /\ \A p \in Parties : sock[c][p] = "open"
          /\ \A d \in Dirs : copyPc[c][d] = "running"
    /\ \E c \in Slots : relayPc[c] = "done" /\ sock[c]["client"] = "closed"

\* C19: after every step, each connection whose relay exists has one
\* backend, an entry of the configured list chosen before the relay was
\* spawned, and keeps it; its relay has dialed at most once, that address,
\* and exactly once by the time proxy has returned, after a failed dial and
\* after a relay that ended with a copy error alike
C19_OneBackendOneDial ==
    [][ \A c \in Slots :
          /\ backendAddr[c] # "" => UNCHANGED <<backendIdx[c], backendAddr[c]>>
          /\ relayPc'[c] # "none" =>
                /\ backendIdx'[c] \in 0..(Len(server') - 1)
                /\ backendAddr'[c] = Index(server', backendIdx'[c])
          /\ Len(dials'[c]) <= 1
          /\ \A k \in 1..Len(dials'[c]) : dials'[c][k] = backendAddr'[c]
          /\ relayPc'[c] \in {"wait", "ret", "done"} => Len(dials'[c]) = 1
          /\ relayPc'[c] \in {"none", "dial"} => dials'[c] = <<>>
      ]_vars

\* with two backends configured, one relay's dial to the second backend has
\* failed and the relay is over after that single dial, and another relay,
\* paired with the first backend, is over after a copy error
C19_Witness ==
    /\ Len(server) = 2
    /\ \E c \in Slots :
          /\ relayPc[c] = "done" /\ proxyErr[c] = "err"
          /\ backendIdx[c] = 1 /\ dials[c] = <<server[2]>>
    /\ \E c \in Slots :
          /\ relayPc[c] = "done" /\ proxyErr[c] = "nil"
          /\ backendIdx[c] = 0 /\ dials[c] = <<server[1]>>
          /\ \E d \in Dirs : copyPc[c][d] = "failed"

\* C20: while a copy goroutine of a connection is running, proxy has closed
\* neither the client nor the backend socket of that connection
C20_NoCloseUnderRunningCopy ==
    \A c \in Slots :
        (\E d \in Dirs : copyPc[c][d] = "running")
            => (sock[c]["client"] = "open" /\ sock[c]["backend"] = "open")

\* one relay has a copy that returned and a copy still running, with both
\* sockets open; another has returned after both copies, with both closed
C20_Witness ==
    /\ \E c \in Slots :
          /\ \E d \in Dirs : copyPc[c][d] \in {"done", "failed"}
          /\ \E d \in Dirs : copyPc[c][d] = "running"
          /\ \A p \in Parties : sock[c][p] = "open"
    /\ \E c \in Slots :
          /\ CopiesOver(c) /\ proxyErr[c] = "nil"
          /\ \A p \in Parties : sock[c][p] = "closed"

=========================================================================
